---- MODULE Spec2Model ----
(***************************************************************************)
(* Model of scripts/arb_deploy.py: the arb-deploy command line tool.       *)
(*                                                                         *)
(* One invocation is a sequential process; pc is its position.  The file   *)
(* system (validator directories, config.json files, docker-compose.yml)   *)
(* and the docker daemon (containers of the arb-validator image) are the   *)
(* environment.  log records every access to the environment in order.     *)
(* Text is modelled as token sequences: extra_flags is a sequence of       *)
(* flags, a URL is a sequence of parts, the manifest a sequence of blocks. *)
(* The sudo flag only prefixes command lines and is left out.              *)
(***************************************************************************)
EXTENDS Integers, Sequences, FiniteSets, TLC

\* ------------------------------------------------------------------ bounds
\* validator directories may exist at indices 0 .. MaxValidators-1
MaxValidators == 3
\* containers of the arb-validator image known to the docker daemon
MaxContainers == 1

Indices == 0 .. (MaxValidators - 1)
ContainerIds == 1 .. MaxContainers

\* ------------------------------------------------------------------ inputs
\* argparse leaves --password at None when omitted; None and "" are both
\* falsy, NoPassword stands for either
NoPassword == ""
CliPasswords == {NoPassword, "X"}
ConfigPasswords == {"Y"}
Addresses == {"0xabc", "0xdef"}
Urls == {<<"ws://", "localhost", ":7545">>}
BlockTimes == {5, 7}

Empty == [k \in {} |-> 0]

\* the JSON objects a config.json may hold: every key may be absent
Configs ==
  { a @@ u @@ p @@ b :
      a \in {Empty} \cup {[rollup_address |-> x] : x \in Addresses},
      u \in {Empty} \cup {[eth_url |-> x] : x \in Urls},
      p \in {Empty} \cup {[password |-> x] : x \in ConfigPasswords},
      b \in {Empty} \cup {[blocktime |-> x] : x \in BlockTimes} }

NoManifest == [exists |-> FALSE, contents |-> <<>>]
StaleBlock ==
  [service |-> "stale", id |-> 0, volume |-> 0, flags |-> <<>>,
   ws_port |-> <<>>, rollup_address |-> ""]
StaleManifest == [exists |-> TRUE, contents |-> <<StaleBlock>>]

Unset == "unset"
NoStatus == -1
Running == -1
NotAnnounced == [n |-> -1, rollup |-> Unset]

VARIABLES
  pc,             \* position of the invocation
  log,            \* environment accesses so far, in order
  dirs,           \* indices i whose rollups/<rollup>/validator<i> exists
  password,       \* --password
  build_flag,     \* --build
  up_flag,        \* --up
  containers,     \* docker state of each arb-validator container
  manifest,       \* ./docker-compose.yml
  manifest0,      \* ./docker-compose.yml when the invocation started
  n_validators,   \* deploy's local
  i,              \* deploy's loop index
  contents,       \* deploy's local: the manifest text being assembled
  data,           \* deploy's local: the config.json last loaded
  rollup_address, \* deploy's local
  addr0,          \* rollup_address of validator0/config.json as loaded
  announced,      \* the "Deploying N validators for rollup A" message
  build_status,   \* what build_validator returned
  error,          \* why the invocation failed
  exit_code       \* process exit status

vars ==
  <<pc, log, dirs, password, build_flag, up_flag, containers, manifest,
    manifest0, n_validators, i, contents, data, rollup_address, addr0,
    announced, build_status, error, exit_code>>

Ev(op, arg) == [op |-> op, arg |-> arg]

\* ------------------------------------------------------- template rendering
compose_header(state_abspath, extra_flags, ws_port, rollup) ==
  [service |-> "arb-tx-aggregator", id |-> 0, volume |-> state_abspath,
   flags |-> extra_flags, ws_port |-> ws_port, rollup_address |-> rollup]

compose_validator(validator_id, state_abspath, extra_flags, ws_port, rollup) ==
  [service |-> "arb-validator", id |-> validator_id, volume |-> state_abspath,
   flags |-> extra_flags, ws_port |-> ws_port, rollup_address |-> rollup]

\* str.replace on a URL split into parts
Replace(url, old, new) ==
  [k \in DOMAIN url |-> IF url[k] = old THEN new ELSE url[k]]

RewriteUrl(url) ==
  Replace(Replace(url, "localhost", "arb-bridge-eth-geth"),
          "localhost", "arb-bridge-eth-geth")

\* "%s" % v for the block times of the model
FormatS(v) == CASE v = 5 -> "5" [] v = 7 -> "7" [] v = 100 -> "100"

PasswordFlag(value) == [flag |-> "-password=", value |-> value]
BlocktimeFlag(value) == [flag |-> "-blocktime=", value |-> FormatS(value)]

Truthy(s) == s # NoPassword

PasswordSourceConfigFirst(pw, d) ==
  IF "password" \in DOMAIN d THEN "config"
  ELSE IF Truthy(pw) THEN "cli" ELSE "none"

\* which password a node gets
PasswordSource(pw, d) ==
  IF ~Truthy(pw) /\ "password" \in DOMAIN d THEN "config"
  ELSE IF Truthy(pw) THEN "cli" ELSE "none"

PasswordFlags(pw, d) ==
  IF PasswordSource(pw, d) = "config" THEN <<PasswordFlag(d.password)>>
  ELSE <<PasswordFlag(pw)>>

RenderNodeBlocktimeEverywhere(idx, cont, d, extra_flags, eth_url, rollup) ==
  LET flags == IF "blocktime" \in DOMAIN d
               THEN Append(extra_flags, BlocktimeFlag(d.blocktime))
               ELSE extra_flags
  IN IF idx = 0
     THEN <<compose_header(0, flags, eth_url, rollup)>>
     ELSE Append(cont, compose_validator(idx, idx, flags, eth_url, rollup))

\* the block of node idx added to the text assembled so far
RenderNode(idx, cont, d, extra_flags, eth_url, rollup) ==
  IF idx = 0
  THEN <<compose_header(0, extra_flags, eth_url, rollup)>>
  ELSE LET flags == IF "blocktime" \in DOMAIN d
                    THEN Append(extra_flags, BlocktimeFlag(d.blocktime))
                    ELSE extra_flags
       IN Append(cont, compose_validator(idx, idx, flags, eth_url, rollup))

\* ------------------------------------------------------------ control flow
HaltPcs == {"halt_down", "halt_ps", "halt_kill", "halt_rm"}

DeployStartSkipHalt == "probe"

\* deploy's first statement
DeployStart == "halt_down"

FirstProbeZero == 1 - 1

\* the first index whose directory is probed
FirstProbe == 1

RunBuildOnlyOnRequest(b, u) == b

RunBuild(b, u) == ~u \/ b

RunUp(b, u) == ~b \/ u

BuildFailedNever(status) == FALSE

BuildFailed(status) == status # 0

OnResolveFailureCarryOn == "write"

\* an exception raised inside the loop leaves deploy
OnResolveFailure == "done"

AfterWrite(b, u) ==
  IF RunBuild(b, u) THEN "build" ELSE IF RunUp(b, u) THEN "up" ELSE "done"

AfterBuild(b, u) == IF RunUp(b, u) THEN "up" ELSE "done"

\* ------------------------------------------------------------------- Init
InitCommon ==
  /\ log = <<>>
  /\ dirs \in SUBSET Indices
  /\ password \in CliPasswords
  /\ build_flag \in BOOLEAN
  /\ up_flag \in BOOLEAN
  /\ containers \in [ContainerIds -> {"none", "running", "exited"}]
  /\ manifest \in {NoManifest, StaleManifest}
  /\ manifest0 = manifest
  /\ n_validators = FirstProbe
  /\ i = 0
  /\ contents = <<>>
  /\ data = Empty
  /\ rollup_address = Unset
  /\ addr0 = Unset
  /\ announced = NotAnnounced
  /\ build_status = NoStatus
  /\ error = "none"
  /\ exit_code = Running

\* deploy(sudo_flag, build_flag, up_flag, rollup, password) called
Init == InitCommon /\ pc = DeployStart

\* the script started from the command line
InitMain == InitCommon /\ pc = "main"

\* ------------------------------------------------------------ halt_docker
HaltComposeDown ==
  /\ pc = "halt_down"
  /\ IF manifest.exists
     THEN /\ log' = Append(log, Ev("down", 0))
          \* docker-compose down stops and removes the containers of the
          \* deployment the manifest describes
          /\ \E gone \in SUBSET ContainerIds :
               containers' = [c \in ContainerIds |->
                                IF c \in gone THEN "none" ELSE containers[c]]
     ELSE UNCHANGED <<log, containers>>
  /\ pc' = "halt_ps"
  /\ UNCHANGED <<dirs, password, build_flag, up_flag, manifest, manifest0,
                 n_validators, i, contents, data, rollup_address, addr0,
                 announced, build_status, error, exit_code>>

\* what `docker ps | grep -e 'arb-validator'` lists
DockerPs(cs) == {c \in ContainerIds : cs[c] = "running"}

\* what `docker ps -a | grep -e 'arb-validator'` lists
DockerPsAll(cs) == {c \in ContainerIds : cs[c] # "none"}

HaltPs ==
  /\ pc = "halt_ps"
  /\ log' = Append(log, Ev("ps", Cardinality(DockerPs(containers))))
  /\ pc' = IF DockerPs(containers) # {} THEN "halt_kill" ELSE "probe"
  /\ UNCHANGED <<dirs, password, build_flag, up_flag, containers, manifest,
                 manifest0, n_validators, i, contents, data, rollup_address,
                 addr0, announced, build_status, error, exit_code>>

HaltKill ==
  /\ pc = "halt_kill"
  /\ log' = Append(log, Ev("kill", 0))
  /\ containers' = [c \in ContainerIds |->
                      IF c \in DockerPs(containers) THEN "exited"
                      ELSE containers[c]]
  /\ pc' = "halt_rm"
  /\ UNCHANGED <<dirs, password, build_flag, up_flag, manifest, manifest0,
                 n_validators, i, contents, data, rollup_address, addr0,
                 announced, build_status, error, exit_code>>

HaltRm ==
  /\ pc = "halt_rm"
  /\ log' = Append(log, Ev("rm", 0))
  \* docker rm removes the listed containers that are not running
  /\ containers' = [c \in ContainerIds |->
                      IF c \in DockerPsAll(containers)
                         /\ containers[c] = "exited"
                      THEN "none" ELSE containers[c]]
  /\ pc' = "probe"
  /\ UNCHANGED <<dirs, password, build_flag, up_flag, manifest, manifest0,
                 n_validators, i, contents, data, rollup_address, addr0,
                 announced, build_status, error, exit_code>>

\* ----------------------------------------------------------------- deploy
\* one turn of the `while True` loop
Discover ==
  /\ pc = "probe"
  /\ log' = Append(log, Ev("exists", n_validators))
  /\ IF n_validators \in dirs
     THEN /\ n_validators' = n_validators + 1
          /\ pc' = "probe"
     ELSE /\ n_validators' = n_validators
          /\ pc' = "read"
  /\ UNCHANGED <<dirs, password, build_flag, up_flag, containers, manifest,
                 manifest0, i, contents, data, rollup_address, addr0,
                 announced, build_status, error, exit_code>>

Fail(kind) ==
  /\ error' = kind
  /\ exit_code' = 1
  /\ pc' = OnResolveFailure

\* one turn of the `for i in range(0, n_validators)` loop
ResolveNode ==
  /\ pc = "read"
  /\ i < n_validators
  /\ log' = Append(log, Ev("open", i))
  /\ \/ \* config.json missing, unreadable or not JSON
        /\ Fail("ConfigLoad")
        /\ UNCHANGED <<data, rollup_address, addr0, contents, i>>
     \/ /\ i \in dirs
        /\ \E d \in Configs :
             /\ data' = d
             /\ IF "rollup_address" \notin DOMAIN d
                THEN /\ Fail("KeyError")
                     /\ UNCHANGED <<rollup_address, addr0, contents, i>>
                ELSE
                /\ rollup_address' = d.rollup_address
                /\ addr0' = IF i = 0 THEN d.rollup_address ELSE addr0
                /\ IF "eth_url" \notin DOMAIN d
                   THEN /\ Fail("KeyError")
                        /\ UNCHANGED <<contents, i>>
                   ELSE IF PasswordSource(password, d) = "none"
                   THEN /\ Fail("PasswordRequired")
                        /\ UNCHANGED <<contents, i>>
                   ELSE
                   /\ contents' = RenderNode(i, contents, d,
                                             PasswordFlags(password, d),
                                             RewriteUrl(d.eth_url),
                                             d.rollup_address)
                   /\ i' = i + 1
                   /\ pc' = IF i + 1 = n_validators THEN "write" ELSE "read"
                   /\ UNCHANGED <<error, exit_code>>
  /\ UNCHANGED <<dirs, password, build_flag, up_flag, containers, manifest,
                 manifest0, n_validators, announced, build_status>>

WriteManifest ==
  /\ pc = "write"
  /\ log' = Append(log, Ev("write", 0))
  /\ manifest' = [exists |-> TRUE, contents |-> contents]
  /\ pc' = AfterWrite(build_flag, up_flag)
  /\ exit_code' = IF AfterWrite(build_flag, up_flag) = "done" THEN 0
                  ELSE exit_code
  /\ UNCHANGED <<dirs, password, build_flag, up_flag, containers, manifest0,
                 n_validators, i, contents, data, rollup_address, addr0,
                 announced, build_status, error>>

Build ==
  /\ pc = "build"
  /\ log' = Append(log, Ev("build", 0))
  /\ \E status \in {0, 1} :
       /\ build_status' = status
       /\ IF BuildFailed(status)
          THEN /\ error' = "BuildFailure"
               /\ exit_code' = 1
               /\ pc' = "done"
          ELSE /\ pc' = AfterBuild(build_flag, up_flag)
               /\ exit_code' = IF AfterBuild(build_flag, up_flag) = "done"
                               THEN 0 ELSE exit_code
               /\ UNCHANGED error
  /\ UNCHANGED <<dirs, password, build_flag, up_flag, containers, manifest,
                 manifest0, n_validators, i, contents, data, rollup_address,
                 addr0, announced>>

Up ==
  /\ pc = "up"
  /\ announced' = [n |-> n_validators, rollup |-> rollup_address]
  /\ log' = Append(log, Ev("up", 0))
  \* docker-compose up runs in the foreground; it returns when the
  \* services it started have exited
  /\ containers' = [c \in ContainerIds |-> "exited"]
  /\ pc' = "done"
  /\ exit_code' = 0
  /\ UNCHANGED <<dirs, password, build_flag, up_flag, manifest, manifest0,
                 n_validators, i, contents, data, rollup_address, addr0,
                 build_status, error>>

\* ------------------------------------------------------------------- main
MainCreateNetwork ==
  /\ pc = "main"
  /\ log' = Append(log, Ev("create-network", 0))
  /\ pc' = "parse_args"
  /\ UNCHANGED <<dirs, password, build_flag, up_flag, containers, manifest,
                 manifest0, n_validators, i, contents, data, rollup_address,
                 addr0, announced, build_status, error, exit_code>>

\* --build and --up are in one mutually exclusive group
MainParseArgs ==
  /\ pc = "parse_args"
  /\ IF build_flag /\ up_flag
     THEN /\ error' = "Usage"
          /\ exit_code' = 2
          /\ pc' = "done"
     ELSE /\ pc' = DeployStart
          /\ UNCHANGED <<error, exit_code>>
  /\ UNCHANGED <<log, dirs, password, build_flag, up_flag, containers,
                 manifest, manifest0, n_validators, i, contents, data,
                 rollup_address, addr0, announced, build_status>>

Next ==
  \/ HaltComposeDown
  \/ HaltPs
  \/ HaltKill
  \/ HaltRm
  \/ Discover
  \/ ResolveNode
  \/ WriteManifest
  \/ Build
  \/ Up

NextMain ==
  \/ MainCreateNetwork
  \/ MainParseArgs
  \/ Next

Spec == Init /\ [][Next]_vars

SpecMain == InitMain /\ [][NextMain]_vars

\* ---------------------------------------------------------------- helpers
HaltOps == {"down", "ps", "kill", "rm"}
DeployOps == {"exists", "open", "write", "build", "up"}
ResolveErrors == {"ConfigLoad", "KeyError", "PasswordRequired"}

Ops(l) == {l[k].op : k \in DOMAIN l}
Pos(l, op) == {k \in DOMAIN l : l[k].op = op}

\* l is one whole run of halt_docker, started with the manifest of manifest0
IsCompleteHalt(l) ==
  LET body == IF manifest0.exists THEN Tail(l) ELSE l
  IN /\ manifest0.exists => (Len(l) >= 1 /\ l[1].op = "down")
     /\ Len(body) >= 1
     /\ body[1].op = "ps"
     /\ IF body[1].arg = 0
        THEN Len(body) = 1
        ELSE Len(body) = 3 /\ body[2].op = "kill" /\ body[3].op = "rm"

\* the config the last rendered block was made from is still in data
LastResolved == error = "none" /\ Len(contents) >= 1 /\ Len(contents) = i

HasFlag(flags, name) == \E k \in DOMAIN flags : flags[k].flag = name

\* the smallest index at or above from that is not in S
FirstMissing(S, from) ==
  CHOOSE n \in from .. (MaxValidators + 1) :
    n \notin S /\ \A m \in from .. (n - 1) : m \in S

\* ------------------------------------------------------------------ claims

\* C1: in every invocation of deploy the log opens with a whole run of
\* halt_docker, which so precedes every directory probe, config read,
\* manifest write, build and up; no step of halt follows it, and an
\* invocation that has ended, failed or not, has run halt.
C1_HaltFirst ==
  ((\E k \in DOMAIN log : log[k].op \in DeployOps) \/ pc = "done") =>
    \E h \in 1 .. Len(log) :
      /\ h <= 4
      /\ IsCompleteHalt(SubSeq(log, 1, h))
      /\ \A m \in (h + 1) .. Len(log) : log[m].op \notin HaltOps

C1_Witness ==
  /\ pc = "done"
  /\ error = "PasswordRequired"
  /\ "kill" \in Ops(log)
  /\ "down" \in Ops(log)

\* C2 as stated: after a deploy whose config resolution succeeded, with
\* neither flag build ran and then up ran; with only build_flag build ran
\* and up did not; with only up_flag up ran and build did not; some phase
\* ran, and build never came after up.
C2_Original ==
  (pc = "done" /\ error \notin ResolveErrors) =>
    /\ (~build_flag /\ ~up_flag) =>
         /\ "build" \in Ops(log)
         /\ "up" \in Ops(log)
    /\ (build_flag /\ ~up_flag) =>
         ("build" \in Ops(log) /\ "up" \notin Ops(log))
    /\ (up_flag /\ ~build_flag) =>
         ("up" \in Ops(log) /\ "build" \notin Ops(log))
    /\ ("build" \in Ops(log) \/ "up" \in Ops(log))
    /\ \A u \in Pos(log, "up") : \A b \in Pos(log, "build") : b < u

\* C2 amended: as C2, but with neither flag up runs after build exactly
\* when build returned zero.
C2_PhaseSelection ==
  (pc = "done" /\ error \notin ResolveErrors) =>
    /\ (~build_flag /\ ~up_flag) =>
         /\ "build" \in Ops(log)
         /\ "up" \in Ops(log) <=> build_status = 0
    /\ (build_flag /\ ~up_flag) =>
         ("build" \in Ops(log) /\ "up" \notin Ops(log))
    /\ (up_flag /\ ~build_flag) =>
         ("up" \in Ops(log) /\ "build" \notin Ops(log))
    /\ ("build" \in Ops(log) \/ "up" \in Ops(log))
    /\ \A u \in Pos(log, "up") : \A b \in Pos(log, "build") : b < u

C2_Witness ==
  /\ pc = "done"
  /\ ~build_flag /\ ~up_flag
  /\ build_status = 0
  /\ "up" \in Ops(log)

\* C3: once the build step has returned a non-zero status the invocation
\* has ended with exit code 1 and docker-compose up was not run.
C3_BuildFailureAborts ==
  (build_status # NoStatus /\ build_status # 0) =>
    /\ pc = "done"
    /\ exit_code = 1
    /\ "up" \notin Ops(log)

C3_Witness ==
  /\ build_status = 1
  /\ ~build_flag /\ ~up_flag
  /\ pc = "done"

\* C4: a node's first flag is -password=X when a non-empty --password X is
\* given, whatever its config holds, and -password=Y of its own config when
\* --password is absent or empty; it carries no other password flag; a node
\* with neither password fails the whole deployment.
C4_PasswordResolution ==
  /\ LastResolved =>
       LET flags == contents[Len(contents)].flags
           own == IF Truthy(password) THEN password ELSE data.password
       IN /\ ~Truthy(password) => "password" \in DOMAIN data
          /\ flags[1] = PasswordFlag(own)
          /\ \A k \in DOMAIN flags :
               flags[k].flag = "-password=" => flags[k].value = own
  /\ ( /\ {"rollup_address", "eth_url"} \subseteq DOMAIN data
       /\ "password" \notin DOMAIN data
       /\ ~Truthy(password) ) =>
       /\ error = "PasswordRequired"
       /\ pc = "done"
       /\ exit_code = 1
       /\ "write" \notin Ops(log)

C4_Witness ==
  /\ LastResolved
  /\ Len(contents) >= 2
  /\ Truthy(password)
  /\ "password" \in DOMAIN data
  /\ data.password # password

\* C5: the manifest is written once, after every node has been resolved;
\* when the resolution of a node fails the manifest file is as it was when
\* the invocation started and neither build nor up has been run.
C5_NoPartialManifest ==
  /\ error \in ResolveErrors =>
       /\ manifest = manifest0
       /\ Ops(log) \cap {"write", "build", "up"} = {}
  /\ "write" \notin Ops(log) => manifest = manifest0
  /\ "write" \in Ops(log) =>
       /\ Len(contents) = n_validators
       /\ manifest = [exists |-> TRUE, contents |-> contents]
       /\ Cardinality(Pos(log, "write")) = 1

C5_Witness ==
  /\ pc = "done"
  /\ error = "PasswordRequired"
  /\ manifest0.exists
  /\ Len(contents) >= 1

\* C6: an invocation from the command line with both --build and --up runs
\* no external command and leaves the manifest file alone.
C6_RejectedBeforeSideEffects ==
  (build_flag /\ up_flag) => (log = <<>> /\ manifest = manifest0)

\* C7: once halt_docker has returned (and before the new deployment is
\* brought up) no arb-validator container is left, running or stopped.
C7_HaltLeavesNoContainer ==
  (pc \notin HaltPcs /\ "up" \notin Ops(log)) =>
    \A c \in ContainerIds : containers[c] = "none"

\* C8 as stated: the nodes are 0..N-1, N the smallest index whose directory
\* is missing; with validator0 missing N = 0 and no config is read.
C8_Original ==
  (pc \notin HaltPcs \cup {"probe"}) =>
    /\ n_validators = FirstMissing(dirs, 0)
    /\ \A k \in Pos(log, "open") : log[k].arg < FirstMissing(dirs, 0)

\* C8 amended: the probe starts at index 1.  N is the smallest index >= 1
\* whose directory is missing, exactly the indices 1..N are probed and the
\* configs are read in the order 0, 1, ..; directories past the first gap
\* are ignored.  With validator0 present N is the smallest missing index;
\* with validator0 missing the read of its config fails, nothing else is
\* read and the manifest is not written.
C8_Discovery ==
  (pc \notin HaltPcs \cup {"probe"}) =>
    /\ n_validators = FirstMissing(dirs, 1)
    /\ {log[k].arg : k \in Pos(log, "exists")} = 1 .. n_validators
    /\ \E r \in 0 .. n_validators :
         /\ Cardinality(Pos(log, "open")) = r
         /\ {log[k].arg : k \in Pos(log, "open")} = 0 .. (r - 1)
    /\ \A j, k \in Pos(log, "open") : j < k => log[j].arg < log[k].arg
    /\ 0 \in dirs => n_validators = FirstMissing(dirs, 0)
    /\ (0 \notin dirs /\ pc # "read") =>
         /\ error = "ConfigLoad"
         /\ {log[k].arg : k \in Pos(log, "open")} = {0}
         /\ manifest = manifest0

C8_Witness ==
  /\ pc = "done"
  /\ 0 \notin dirs
  /\ 1 \in dirs
  /\ n_validators = 2
  /\ error = "ConfigLoad"

\* C9: the aggregator block (node 0) never carries a -blocktime flag; the
\* block of a node i >= 1 whose config has a blocktime carries exactly
\* -blocktime=<its own value> right after the password flag; a node whose
\* config has none carries none; a block once rendered is never changed.
C9_State ==
  LastResolved =>
    LET b == contents[Len(contents)]
    IN /\ b.id = Len(contents) - 1
       /\ b.id = 0 => ~HasFlag(b.flags, "-blocktime=")
       /\ (b.id >= 1 /\ "blocktime" \in DOMAIN data) =>
            /\ Len(b.flags) = 2
            /\ b.flags[1].flag = "-password="
            /\ b.flags[2] = [flag |-> "-blocktime=",
                             value |-> FormatS(data.blocktime)]
       /\ "blocktime" \notin DOMAIN data => ~HasFlag(b.flags, "-blocktime=")

C9_Step ==
  \A k \in DOMAIN contents :
    k \in DOMAIN contents' /\ contents'[k] = contents[k]

C9_BlocktimeScoping == []C9_State /\ [][C9_Step]_vars

C9_Witness ==
  /\ LastResolved
  /\ Len(contents) >= 3
  /\ "blocktime" \in DOMAIN data
  /\ HasFlag(contents[1].flags, "-password=")
  /\ ~HasFlag(contents[2].flags, "-blocktime=")

\* C10: the rollup address in the aggregator block and the rollup address
\* in the "Deploying N validators for rollup" message are both the
\* rollup_address of validator0's config.
C10_Node0NamesDeployment ==
  announced # NotAnnounced =>
    /\ contents[1].rollup_address = addr0
    /\ announced.rollup = addr0

TypeOK ==
  /\ pc \in HaltPcs \cup {"main", "parse_args", "probe", "read", "write",
                          "build", "up", "done"}
  /\ n_validators \in 0 .. MaxValidators
  /\ i \in 0 .. MaxValidators
  /\ Len(contents) <= MaxValidators
====
